---- MODULE Spec2Model ----
(***************************************************************************)
(* identify_potential_customers.ipynb as a state machine: one action per   *)
(* code cell of the preprocessing, of approach 1 (need scores), of         *)
(* approach 2 (market penetration) and of approach 3 (nearest current      *)
(* member), run top to bottom.  A cell that raises stops the run           *)
(* (pc = "failed", error names the exception).                             *)
(*                                                                         *)
(* Numbers.  The notebook computes in float64.  Here a float is an integer *)
(* count of 1/Scale units; multiplication, division and square root round  *)
(* to the nearest unit (sums of such values are exact), so that sqrt(s)**2 *)
(* and s, or the expanded and the direct form of a squared distance, are   *)
(* different computations, as they are in the notebook.  NaN stands for    *)
(* every non-finite float (nan and inf).  Positions and index labels count *)
(* from 1 where pandas counts from 0.                                      *)
(*                                                                         *)
(* membership.py is imported by the notebook but is not among the sources: *)
(* gen_ids_members, gen_ids_all, gen_ids_nonmembers, tag_membership and    *)
(* subset follow spec.md sections 4.1 and 4.2; gen_proportions,            *)
(* gen_blau_index and compute_need_scores follow sections 4.3 and 4.4.     *)
(***************************************************************************)
EXTENDS Integers, Sequences, FiniteSets

\* ---------------------------------------------------------------- bounds
NumRows == 4        \* rows of data_ipeds.csv
MaxTopN == 3        \* largest n tried for head(n) in approach 3
MaxNeedTopN == 2    \* largest n tried for head(n) in approach 1

\* ----------------------------------------------------------- float model
Scale == 1000
NaN == -1073741824

IsNaN(x) == x = NaN

RECURSIVE ISqrtIter(_, _, _)
\* largest r in lo..hi with r*r <= v  (lo*lo <= v < (hi+1)*(hi+1))
ISqrtIter(v, lo, hi) ==
    IF lo >= hi THEN lo
    ELSE LET mid == (lo + hi + 1) \div 2
         IN  IF mid * mid <= v THEN ISqrtIter(v, mid, hi)
             ELSE ISqrtIter(v, lo, mid - 1)

\* a * b, rounded
FMul(a, b) ==
    IF IsNaN(a) \/ IsNaN(b) THEN NaN
    ELSE (2 * a * b + Scale) \div (2 * Scale)

\* a / b, rounded; x/0 is inf or nan
FDiv(a, b) ==
    IF IsNaN(a) \/ IsNaN(b) \/ b = 0 THEN NaN
    ELSE (2 * a * Scale + b) \div (2 * b)

\* sqrt(a), rounded, a >= 0
FSqrt(a) ==
    IF IsNaN(a) THEN NaN
    ELSE LET v == a * Scale
             r == ISqrtIter(v, 0, 46340)
         IN  IF v - r * r > r THEN r + 1 ELSE r

FAdd(a, b) == IF IsNaN(a) \/ IsNaN(b) THEN NaN ELSE a + b

FSub(a, b) == IF IsNaN(a) \/ IsNaN(b) THEN NaN ELSE a - b

\* an int as a float
ToFloat(k) == k * Scale

RECURSIVE FSum(_)
\* left-to-right sum of a sequence of floats
FSum(s) == IF s = <<>> THEN 0 ELSE FAdd(FSum(SubSeq(s, 1, Len(s) - 1)), s[Len(s)])

\* ------------------------------------------------------------ sequences
RECURSIVE Ascending(_)
\* the numbers of the set P in ascending order
Ascending(P) ==
    IF P = {} THEN <<>>
    ELSE LET top == CHOOSE x \in P : \A y \in P : y <= x
         IN  Append(Ascending(P \ {top}), top)

\* the rows of s at the positions P, in order (a boolean mask)
Pick(s, P) == LET idx == Ascending(P) IN [k \in 1..Len(idx) |-> s[idx[k]]]

Range(s) == {s[k] : k \in 1..Len(s)}

Head_n(s, k) == SubSeq(s, 1, IF k < Len(s) THEN k ELSE Len(s))

With(r, f, v) == [g \in DOMAIN r \cup {f} |-> IF g = f THEN v ELSE r[g]]

\* ---------------------------------------------------------------- inputs
\* The institutions a row of data_ipeds.csv is drawn from: name and place,
\* the need features of approach 1 (distance education flag, percent of
\* students with financial aid, undergraduates by gender and by race, all
\* undergraduates) and the similarity features of approach 3 (two feature
\* columns stand for the notebook's 21).  Numbers are floats.
Catalogue == <<
    [name |-> "Alder College", city |-> "Arcata", state |-> "CA", zip |-> "95521",
     distance_educ |-> 1 * Scale, financial_aid |-> 10 * Scale,
     men |-> 5 * Scale, women |-> 5 * Scale,
     native_american |-> 0, asian |-> 2 * Scale, black |-> 2 * Scale,
     hispanic |-> 2 * Scale, hawaiian_pacific |-> 0, white |-> 4 * Scale,
     total_ug |-> 10 * Scale, feat |-> <<1000, 0>>],
    [name |-> "Birch College", city |-> "Buffalo", state |-> "NY", zip |-> "14201",
     distance_educ |-> 0, financial_aid |-> 20 * Scale,
     men |-> 8 * Scale, women |-> 2 * Scale,
     native_american |-> 0, asian |-> 0, black |-> 5 * Scale,
     hispanic |-> 0, hawaiian_pacific |-> 0, white |-> 5 * Scale,
     total_ug |-> 10 * Scale, feat |-> <<0, 1000>>],
    [name |-> "Cedar University", city |-> "Chico", state |-> "CA", zip |-> "95926",
     distance_educ |-> 0, financial_aid |-> 10 * Scale,
     men |-> 10 * Scale, women |-> 10 * Scale,
     native_american |-> 0, asian |-> 5 * Scale, black |-> 5 * Scale,
     hispanic |-> 5 * Scale, hawaiian_pacific |-> 0, white |-> 5 * Scale,
     total_ug |-> 20 * Scale, feat |-> <<900, 100>>],
    [name |-> "Dogwood University", city |-> "Delhi", state |-> "NY", zip |-> "13753",
     distance_educ |-> 1 * Scale, financial_aid |-> 20 * Scale,
     men |-> 1 * Scale, women |-> 9 * Scale,
     native_american |-> 1 * Scale, asian |-> 1 * Scale, black |-> 1 * Scale,
     hispanic |-> 1 * Scale, hawaiian_pacific |-> 1 * Scale, white |-> 5 * Scale,
     total_ug |-> 10 * Scale, feat |-> <<100, 900>>],
    [name |-> "Elm Women's College", city |-> "El Paso", state |-> "TX", zip |-> "79901",
     distance_educ |-> 1 * Scale, financial_aid |-> 15 * Scale,
     men |-> 0, women |-> 10 * Scale,
     native_american |-> 0, asian |-> 0, black |-> 0,
     hispanic |-> 0, hawaiian_pacific |-> 0, white |-> 10 * Scale,
     total_ug |-> 10 * Scale, feat |-> <<NaN, 1000>>] >>

\* states in sort order
StateOrder == <<"CA", "NY", "TX">>

UnitIDOf(r) == 100 + r

\* an ID of the roster that no row of the table carries
ForeignID == UnitIDOf(0)

Tables ==
    {[r \in 1..NumRows |->
        [f \in {"index", "UnitID"} \cup DOMAIN Catalogue[c[r]] |->
            CASE f = "index" -> r
              [] f = "UnitID" -> UnitIDOf(r)
              [] OTHER -> Catalogue[c[r]][f]]] :
     c \in [1..NumRows -> 1..Len(Catalogue)]}

\* members_ipeds_ids.txt: the first k institutions, with or without a
\* foreign ID
Rosters ==
    {{UnitIDOf(r) : r \in 1..k} \cup x : k \in 0..NumRows, x \in {{}, {ForeignID}}}

VARIABLES pc, error, roster, ipeds, stdout,
          ids_members, ids_all, ids_non_members,
          need_scores_df,
          subset_df, ids_status, market_df,
          members_df, non_members_df, n, m, members_norm, M,
          match_index, matched_euclidean, unitid_most_similar_members,
          potential_members

inputs == <<roster, ipeds>>
idvars == <<ids_members, ids_all, ids_non_members>>
a1vars == <<need_scores_df>>
a2vars == <<subset_df, ids_status, market_df>>
a3vars == <<members_df, non_members_df, n, m, members_norm, M,
            match_index, matched_euclidean, unitid_most_similar_members,
            potential_members>>
vars == <<pc, error, stdout, inputs, idvars, a1vars, a2vars, a3vars>>

Init ==
    /\ pc = "gen_ids_members"
    /\ error = "none"
    /\ roster \in Rosters
    /\ ipeds \in Tables
    /\ stdout = <<>>
    /\ ids_members = {} /\ ids_all = {} /\ ids_non_members = {}
    /\ need_scores_df = <<>>
    /\ subset_df = <<>> /\ ids_status = <<>>
    /\ market_df = [columns |-> {}, rows |-> <<>>]
    /\ members_df = <<>> /\ non_members_df = <<>>
    /\ n = 0 /\ m = 0
    /\ members_norm = <<>>
    /\ M = <<>>
    /\ match_index = <<>> /\ matched_euclidean = <<>>
    /\ unitid_most_similar_members = <<>>
    /\ potential_members = <<>>

\* a cell raised: the run stops there
Raise(e) == pc' = "failed" /\ error' = e

Goto(l) == pc' = l /\ UNCHANGED error

\* ------------------------------------------------------- membership.py
gen_ids_members(file) == file

gen_ids_all(table) == {table[r].UnitID : r \in 1..Len(table)}

\* set difference; a customer ID absent from all_ids is an error
gen_ids_nonmembers(all, members) ==
    IF members \subseteq all THEN [ok |-> TRUE, ids |-> all \ members]
    ELSE [ok |-> FALSE, ids |-> {}]

\* one status label per ID of all_ids, in table order
tag_membership(table, all, members) ==
    LET rows == Pick(table, {r \in 1..Len(table) : table[r].UnitID \in all})
    IN  [k \in 1..Len(rows) |->
            [UnitID |-> rows[k].UnitID,
             membership_status |->
                IF rows[k].UnitID \in members THEN "member" ELSE "non_member"]]

\* rows of the table with an ID in ids, projected on cols; a row keeps its
\* index label
subset(table, ids, cols) ==
    LET rows == Pick(table, {r \in 1..Len(table) : table[r].UnitID \in ids})
    IN  [k \in 1..Len(rows) |-> [f \in cols \cup {"index"} |-> rows[k][f]]]

\* ------------------------------------------------------------ preprocess
GenIdsMembers ==
    /\ pc = "gen_ids_members"
    /\ ids_members' = gen_ids_members(roster)
    /\ Goto("gen_ids_all")
    /\ UNCHANGED <<stdout, inputs, a1vars, ids_all, ids_non_members, a2vars, a3vars>>

GenIdsAll ==
    /\ pc = "gen_ids_all"
    /\ ids_all' = gen_ids_all(ipeds)
    /\ Goto("gen_ids_nonmembers")
    /\ UNCHANGED <<stdout, inputs, a1vars, ids_members, ids_non_members, a2vars, a3vars>>

GenIdsNonmembersSwapped ==
    /\ pc = "gen_ids_nonmembers"
    /\ LET res == gen_ids_nonmembers(ids_members, ids_all)
       IN  IF res.ok
           THEN ids_non_members' = res.ids /\ Goto("a1_subset")
           ELSE Raise("SchemaError") /\ UNCHANGED ids_non_members
    /\ UNCHANGED <<stdout, inputs, a1vars, ids_members, ids_all, a2vars, a3vars>>

GenIdsNonmembersUnchecked ==
    /\ pc = "gen_ids_nonmembers"
    /\ ids_non_members' = ids_all \ ids_members
    /\ Goto("a1_subset")
    /\ UNCHANGED <<stdout, inputs, a1vars, ids_members, ids_all, a2vars, a3vars>>

GenIdsNonmembers ==
    /\ pc = "gen_ids_nonmembers"
    /\ LET res == gen_ids_nonmembers(ids_all, ids_members)
       IN  IF res.ok
           THEN ids_non_members' = res.ids /\ Goto("a1_subset")
           ELSE Raise("SchemaError") /\ UNCHANGED ids_non_members
    /\ UNCHANGED <<stdout, inputs, a1vars, ids_members, ids_all, a2vars, a3vars>>

\* ---------------------------------------------------------------- pandas
\* row x sorts strictly before row y on column col; NaN sorts last
Before(x, y, col, ascending) ==
    /\ ~IsNaN(x[col])
    /\ \/ IsNaN(y[col])
       \/ IF ascending THEN x[col] < y[col] ELSE x[col] > y[col]

RECURSIVE InsertSorted(_, _, _, _)
\* x put into the sorted sequence s, after every element it is not Before
InsertSorted(s, x, col, ascending) ==
    IF s = <<>> THEN <<x>>
    ELSE IF Before(x, s[Len(s)], col, ascending)
         THEN Append(InsertSorted(SubSeq(s, 1, Len(s) - 1), x, col, ascending),
                     s[Len(s)])
         ELSE Append(s, x)

RECURSIVE SortBy(_, _, _)
\* insertion sort, which is what numpy's default sort is below 17 elements
SortBy(s, col, ascending) ==
    IF s = <<>> THEN <<>>
    ELSE InsertSorted(SortBy(SubSeq(s, 1, Len(s) - 1), col, ascending),
                      s[Len(s)], col, ascending)

sort_values_desc(df, col) == SortBy(df, col, FALSE)

\* DataFrame.sort_values(col), ascending
sort_values(df, col) == SortBy(df, col, TRUE)

RECURSIVE merge(_, _)
\* left.merge(right, on='UnitID', how='inner')
merge(left, right) ==
    IF left = <<>> THEN <<>>
    ELSE LET l == left[Len(left)]
             hit == Pick(right, {r \in 1..Len(right) : right[r].UnitID = l.UnitID})
         IN  merge(SubSeq(left, 1, Len(left) - 1), right) \o
             [k \in 1..Len(hit) |->
                 [f \in DOMAIN l \cup DOMAIN hit[k] |->
                     IF f \in DOMAIN l THEN l[f] ELSE hit[k][f]]]

\* groupby(['state','membership_status']).agg({'UnitID':'count'}):
\* one record per (state, status) pair that occurs
groupby_count_any_status(df) ==
    {[state |-> s, membership_status |-> t,
      UnitID |-> Cardinality({k \in 1..Len(df) : df[k].state = s})] :
     <<s, t>> \in {<<df[k].state, df[k].membership_status>> : k \in 1..Len(df)}}

groupby_count(df) ==
    {[state |-> s, membership_status |-> t,
      UnitID |-> Cardinality({k \in 1..Len(df) :
                    df[k].state = s /\ df[k].membership_status = t})] :
     <<s, t>> \in {<<df[k].state, df[k].membership_status>> : k \in 1..Len(df)}}

\* pivot_table('UnitID', index='state', columns='membership_status',
\*             fill_value=0, aggfunc='sum'), then reset_index
pivot_table(groups) ==
    LET cols == {g.membership_status : g \in groups}
        present == Pick(StateOrder, {k \in 1..Len(StateOrder) :
                                        \E g \in groups : g.state = StateOrder[k]})
        cell(s, c) ==
            IF \E g \in groups : g.state = s /\ g.membership_status = c
            THEN (CHOOSE g \in groups : g.state = s /\ g.membership_status = c).UnitID
            ELSE 0
    IN  [columns |-> cols,
         rows |-> [k \in 1..Len(present) |->
                    [f \in {"state"} \cup cols |->
                        IF f = "state" THEN present[k] ELSE cell(present[k], f)]]]

\* --------------------------------------------------- approach 1: need
\* the columns read for the need scores
var_list ==
    {"UnitID", "name", "city", "state", "zip", "distance_educ", "financial_aid",
     "men", "women", "native_american", "asian", "black", "hispanic",
     "hawaiian_pacific", "white", "total_ug"}

\* count column -> proportion column
col_dict_gender ==
    << [col |-> "men", prop |-> "p_men"], [col |-> "women", prop |-> "p_women"] >>

col_dict_race ==
    << [col |-> "native_american", prop |-> "p_native_american"],
       [col |-> "asian", prop |-> "p_asian"],
       [col |-> "black", prop |-> "p_black"],
       [col |-> "hispanic", prop |-> "p_hispanic"],
       [col |-> "hawaiian_pacific", prop |-> "p_hawaiian_pacific"],
       [col |-> "white", prop |-> "p_white"] >>

\* list(col_dict.values())
prop_list(col_dict) == [k \in 1..Len(col_dict) |-> col_dict[k].prop]

\* raw column -> standardized column
standardized_dict ==
    << [col |-> "diversity_gender", scaled |-> "scaled_diversity_gender"],
       [col |-> "diversity_race", scaled |-> "scaled_diversity_race"],
       [col |-> "financial_aid", scaled |-> "scaled_financial_aid"],
       [col |-> "distance_educ", scaled |-> "scaled_distance_educ"],
       [col |-> "total_ug", scaled |-> "scaled_total_ug"] >>

vars_flipped == {"scaled_diversity_gender", "scaled_diversity_race"}

vars_to_keep == {"UnitID", "name", "city", "state", "need_score"}

\* df[c]
series(df, c) == [i \in 1..Len(df) |-> df[i][c]]

\* df[c] = values, row by row
assign(df, c, values) == [i \in 1..Len(df) |-> With(df[i], c, values[i])]

\* df[cols]
project(df, cols) == [i \in 1..Len(df) |-> [f \in cols \cup {"index"} |-> df[i][f]]]

\* each count as a proportion of the row's total over the group; a zero
\* total gives NaN
gen_proportions(df, col_dict) ==
    LET props == Range(prop_list(col_dict))
        src(g) == (CHOOSE k \in 1..Len(col_dict) : col_dict[k].prop = g)
        total(row) == FSum([k \in 1..Len(col_dict) |-> row[col_dict[k].col]])
    IN  [i \in 1..Len(df) |->
            [g \in DOMAIN df[i] \cup props |->
                IF g \in props
                THEN FDiv(df[i][col_dict[src(g)].col], total(df[i]))
                ELSE df[i][g]]]

\* 1 - sum of squared proportions, per row
gen_blau_index(df, props) ==
    [i \in 1..Len(df) |->
        FSub(Scale, FSum([k \in 1..Len(props) |->
                            FMul(df[i][props[k]], df[i][props[k]])]))]

mean(xs) == FDiv(FSum(xs), ToFloat(Len(xs)))

\* population standard deviation
std(xs) ==
    LET mu == mean(xs)
    IN  FSqrt(mean([i \in 1..Len(xs) |-> FMul(FSub(xs[i], mu), FSub(xs[i], mu))]))

zscore(xs) ==
    LET mu == mean(xs)
        sigma == std(xs)
    IN  [i \in 1..Len(xs) |-> FDiv(FSub(xs[i], mu), sigma)]

\* a listed feature has no variance over the rows of df
zero_variance(df, dict) ==
    \E k \in 1..Len(dict) : std(series(df, dict[k].col)) = 0

\* z-score of every listed column, sign flipped for the flipped ones, and
\* their unweighted row sum as need_score
compute_need_scores(df, dict, flipped) ==
    LET scaled == {dict[k].scaled : k \in 1..Len(dict)}
        z == [k \in 1..Len(dict) |-> zscore(series(df, dict[k].col))]
        val(i, k) == IF dict[k].scaled \in flipped THEN FSub(0, z[k][i]) ELSE z[k][i]
        key(g) == CHOOSE k \in 1..Len(dict) : dict[k].scaled = g
    IN  [i \in 1..Len(df) |->
            [g \in DOMAIN df[i] \cup scaled \cup {"need_score"} |->
                CASE g = "need_score" -> FSum([k \in 1..Len(dict) |-> val(i, k)])
                  [] g \in scaled -> val(i, key(g))
                  [] OTHER -> df[i][g]]]

\* sort_values('need_score', ascending=False).head(top) without the sort
top_need_scores_unsorted(df, top) == Head_n(df, top)

\* sort_values('need_score', ascending=False).head(top)
top_need_scores(df, top) == Head_n(SortBy(df, "need_score", FALSE), top)

NeedSubset ==
    /\ pc = "a1_subset"
    /\ subset_df' = subset(ipeds, ids_non_members, var_list)
    /\ Goto("diversity_gender")
    /\ UNCHANGED <<stdout, inputs, a1vars, idvars, ids_status, market_df, a3vars>>

DiversityGender ==
    /\ pc = "diversity_gender"
    /\ LET df == gen_proportions(subset_df, col_dict_gender)
       IN  subset_df' = assign(df, "diversity_gender",
                               gen_blau_index(df, prop_list(col_dict_gender)))
    /\ Goto("diversity_race")
    /\ UNCHANGED <<stdout, inputs, a1vars, idvars, ids_status, market_df, a3vars>>

DiversityRace ==
    /\ pc = "diversity_race"
    /\ LET df == gen_proportions(subset_df, col_dict_race)
       IN  subset_df' = assign(df, "diversity_race",
                               gen_blau_index(df, prop_list(col_dict_race)))
    /\ Goto("compute_need_scores")
    /\ UNCHANGED <<stdout, inputs, a1vars, idvars, ids_status, market_df, a3vars>>

\* spec.md leaves open whether a feature without variance is an error or
\* divides by zero: the cell does either
ComputeNeedScores ==
    /\ pc = "compute_need_scores"
    /\ \/ /\ subset_df' = compute_need_scores(subset_df, standardized_dict,
                                              vars_flipped)
          /\ Goto("keep_vars")
       \/ /\ zero_variance(subset_df, standardized_dict)
          /\ Raise("DegenerateInputError")
          /\ UNCHANGED subset_df
    /\ UNCHANGED <<stdout, inputs, a1vars, idvars, ids_status, market_df, a3vars>>

KeepVars ==
    /\ pc = "keep_vars"
    /\ need_scores_df' = project(subset_df, vars_to_keep)
    /\ Goto("a1_select_top_n")
    /\ UNCHANGED <<stdout, inputs, idvars, a2vars, a3vars>>

\* n = 100; sort_values('need_score', ascending=False).head(n)
NeedSelectTopN ==
    /\ pc = "a1_select_top_n"
    /\ \E top \in 1..MaxNeedTopN :
          /\ n' = top
          /\ potential_members' = top_need_scores(need_scores_df, top)
    /\ Goto("a2_subset")
    /\ UNCHANGED <<stdout, inputs, a1vars, idvars, a2vars, members_df,
                   non_members_df, m, members_norm, M, match_index,
                   matched_euclidean, unitid_most_similar_members>>

\* ------------------------------------------- approach 2: market penetration
A2Subset ==
    /\ pc = "a2_subset"
    /\ subset_df' = subset(ipeds, ids_all, {"UnitID", "state"})
    /\ Goto("tag_membership")
    /\ UNCHANGED <<stdout, inputs, a1vars, idvars, ids_status, market_df, a3vars>>

TagMembership ==
    /\ pc = "tag_membership"
    /\ ids_status' = tag_membership(ipeds, ids_all, ids_members)
    /\ Goto("merge")
    /\ UNCHANGED <<stdout, inputs, a1vars, idvars, subset_df, market_df, a3vars>>

MergeRename ==
    /\ pc = "merge"
    /\ subset_df' = merge(subset_df, ids_status)
    /\ Goto("market_pivot")
    /\ UNCHANGED <<stdout, inputs, a1vars, idvars, ids_status, market_df, a3vars>>

MarketPivot ==
    /\ pc = "market_pivot"
    /\ market_df' = pivot_table(groupby_count(subset_df))
    /\ Goto("market_score")
    /\ UNCHANGED <<stdout, inputs, a1vars, idvars, subset_df, ids_status, a3vars>>

\* market_df['member'] raises KeyError when the pivot has no such column
MarketScore ==
    /\ pc = "market_score"
    /\ IF {"member", "non_member"} \subseteq market_df.columns
       THEN /\ market_df' =
                [columns |-> market_df.columns \cup {"total", "market_penetration_score"},
                 rows |-> [k \in 1..Len(market_df.rows) |->
                    LET row == market_df.rows[k]
                        total == row.member + row.non_member
                    IN  With(With(row, "total", total), "market_penetration_score",
                             FDiv(ToFloat(row.member), ToFloat(total)))]]
            /\ Goto("market_sort")
       ELSE Raise("KeyError") /\ UNCHANGED market_df
    /\ UNCHANGED <<stdout, inputs, a1vars, idvars, subset_df, ids_status, a3vars>>

\* the rows stay in the order of the pivot
MarketSortSkipped ==
    /\ pc = "market_sort"
    /\ Goto("a3_subset")
    /\ UNCHANGED <<stdout, inputs, a1vars, idvars, a2vars, a3vars>>

MarketSort ==
    /\ pc = "market_sort"
    /\ market_df' = [market_df EXCEPT
                        !.rows = sort_values(market_df.rows, "market_penetration_score")]
    /\ Goto("a3_subset")
    /\ UNCHANGED <<stdout, inputs, a1vars, idvars, subset_df, ids_status, a3vars>>

\* ------------------------------------------------ numpy and pandas, tables
\* number of columns of the similarity tables: UnitID and the features
NumCols == 1 + Len(Catalogue[1].feat)

Features == 1..Len(Catalogue[1].feat)

shape(df) == <<Len(df), NumCols>>

\* DataFrame.dropna(axis=0): the rows without a missing value
dropna(df) ==
    Pick(df, {r \in 1..Len(df) : \A k \in Features : ~IsNaN(df[r].feat[k])})

\* DataFrame.reset_index(drop=True): labels become positions
reset_index(df) == [k \in 1..Len(df) |-> [df[k] EXCEPT !.index = k]]

\* numpy.linalg.norm of a sequence of floats: sqrt(sum(x * x))
norm(v) == FSqrt(FSum([k \in 1..Len(v) |-> FMul(v[k], v[k])]))

\* one norm per feature column, taken over df and the non-customer rows
column_norms_pooled(df) ==
    [k \in Features |->
        norm([r \in 1..Len(df) |-> df[r].feat[k]]
             \o [r \in 1..Len(non_members_df) |-> non_members_df[r].feat[k]])]

\* norm(df.iloc[:,1:], axis=0): one norm per feature column
column_norms(df) == [k \in Features |-> norm([r \in 1..Len(df) |-> df[r].feat[k]])]

\* df.iloc[:,1:] /= norms
scale_features(df, norms) ==
    [r \in 1..Len(df) |->
        [df[r] EXCEPT !.feat = [k \in Features |-> FDiv(df[r].feat[k], norms[k])]]]

\* X.dot(Y^T)[i][j]
dot(x, y) == FSum([k \in 1..Len(x) |-> FMul(x[k], y[k])])

\* norm(X, axis=1) ** 2, one entry
norm_squared(x) == LET r == norm(x) IN FMul(r, r)

\* M[i][j] = normX[i] - 2 * X[i].Y[j] + normY[j], in that order
distance_entry_no_factor(x, y) ==
    FAdd(FSub(norm_squared(x), dot(x, y)), norm_squared(y))

distance_entry(x, y) ==
    FAdd(FSub(norm_squared(x), FMul(ToFloat(2), dot(x, y))), norm_squared(y))

distance_matrix(X, Y) ==
    [i \in 1..Len(X) |-> [j \in 1..Len(Y) |-> distance_entry(X[i], Y[j])]]

\* np.min(vec): NaN if any entry is
np_min(vec) ==
    IF \E i \in 1..Len(vec) : IsNaN(vec[i]) THEN NaN
    ELSE CHOOSE v \in Range(vec) : \A w \in Range(vec) : v <= w

\* np.argwhere(vec == x): positions in ascending order; NaN equals nothing
argwhere_eq_last(vec, x) ==
    LET hit == Ascending({i \in 1..Len(vec) : ~IsNaN(x) /\ vec[i] = x})
    IN  IF hit = <<>> THEN hit ELSE <<hit[Len(hit)]>>

argwhere_eq(vec, x) == Ascending({i \in 1..Len(vec) : ~IsNaN(x) /\ vec[i] = x})

\* column j of M
column(mat, j) == [i \in 1..Len(mat) |-> mat[i][j]]

\* the iterations 1..j of the matching loop can all run to their end
CanMatch(mat, j) ==
    \A jj \in 1..j : Len(mat) > 0 /\ ~IsNaN(np_min(column(mat, jj)))

\* -------------------------------------- approach 3: nearest current member
A3Subset ==
    /\ pc = "a3_subset"
    /\ members_df' = subset(ipeds, ids_members, {"UnitID", "feat"})
    /\ non_members_df' = subset(ipeds, ids_non_members, {"UnitID", "feat"})
    /\ Goto("print_shape_before")
    /\ UNCHANGED <<stdout, inputs, a1vars, idvars, a2vars, n, m, members_norm, M,
                   match_index, matched_euclidean, unitid_most_similar_members,
                   potential_members>>

\* print("shape of members df: {}, and shape of non-members df: {}")
PrintShape(here, next) ==
    /\ pc = here
    /\ stdout' = Append(stdout, [members |-> shape(members_df),
                                 non_members |-> shape(non_members_df)])
    /\ Goto(next)
    /\ UNCHANGED <<inputs, a1vars, idvars, a2vars, a3vars>>

PrintShapeBefore == PrintShape("print_shape_before", "dropna")

DropNa ==
    /\ pc = "dropna"
    /\ members_df' = dropna(members_df)
    /\ non_members_df' = dropna(non_members_df)
    /\ Goto("print_shape_after")
    /\ UNCHANGED <<stdout, inputs, a1vars, idvars, a2vars, n, m, members_norm, M,
                   match_index, matched_euclidean, unitid_most_similar_members,
                   potential_members>>

PrintShapeAfter == PrintShape("print_shape_after", "reset_index")

ResetIndex ==
    /\ pc = "reset_index"
    /\ members_df' = reset_index(members_df)
    /\ non_members_df' = reset_index(non_members_df)
    /\ Goto("dimensions")
    /\ UNCHANGED <<stdout, inputs, a1vars, idvars, a2vars, n, m, members_norm, M,
                   match_index, matched_euclidean, unitid_most_similar_members,
                   potential_members>>

Dimensions ==
    /\ pc = "dimensions"
    /\ n' = shape(members_df)[1]
    /\ m' = shape(non_members_df)[1]
    /\ Goto("scale")
    /\ UNCHANGED <<stdout, inputs, a1vars, idvars, a2vars, members_df, non_members_df,
                   members_norm, M, match_index, matched_euclidean,
                   unitid_most_similar_members, potential_members>>

ScaleFeatures ==
    /\ pc = "scale"
    /\ members_norm' = column_norms(members_df)
    /\ members_df' = scale_features(members_df, members_norm')
    /\ non_members_df' = scale_features(non_members_df, members_norm')
    /\ Goto("distance")
    /\ UNCHANGED <<stdout, inputs, a1vars, idvars, a2vars, n, m, M, match_index,
                   matched_euclidean, unitid_most_similar_members,
                   potential_members>>

Distance ==
    /\ pc = "distance"
    /\ M' = distance_matrix([i \in 1..n |-> members_df[i].feat],
                            [j \in 1..m |-> non_members_df[j].feat])
    /\ Goto("matching")
    /\ UNCHANGED <<stdout, inputs, a1vars, idvars, a2vars, members_df, non_members_df,
                   n, m, members_norm, match_index, matched_euclidean,
                   unitid_most_similar_members, potential_members>>

\* for j in trange(m): np.min of an empty column raises ValueError, i[0][0]
\* of an empty argwhere raises IndexError; the lists keep what earlier
\* iterations appended
Matching ==
    /\ pc = "matching"
    /\ LET done == IF \E j \in 1..m : ~CanMatch(M, j)
                   THEN (CHOOSE j \in 1..m : ~CanMatch(M, j) /\ CanMatch(M, j - 1)) - 1
                   ELSE m
       IN  /\ match_index' =
                [j \in 1..done |->
                    argwhere_eq(column(M, j), np_min(column(M, j)))[1]]
           /\ matched_euclidean' = [j \in 1..done |-> np_min(column(M, j))]
           /\ IF done = m THEN Goto("attach_distance")
              ELSE IF n = 0 THEN Raise("ValueError") ELSE Raise("IndexError")
    /\ UNCHANGED <<stdout, inputs, a1vars, idvars, a2vars, members_df, non_members_df,
                   n, m, members_norm, M, unitid_most_similar_members,
                   potential_members>>

AttachDistance ==
    /\ pc = "attach_distance"
    /\ non_members_df' =
          [j \in 1..Len(non_members_df) |->
              With(non_members_df[j], "distance_with_closest_members",
                   matched_euclidean[j])]
    /\ Goto("attach_unitid")
    /\ UNCHANGED <<stdout, inputs, a1vars, idvars, a2vars, members_df, n, m,
                   members_norm, M, match_index, matched_euclidean,
                   unitid_most_similar_members, potential_members>>

\* members_df.iloc[match_index,:]["UnitID"], reset_index, then a column
\* assignment, which aligns the series with the table on the index labels
AttachUnitid ==
    /\ pc = "attach_unitid"
    /\ unitid_most_similar_members' =
          [k \in 1..Len(match_index) |->
              [index |-> k, value |-> members_df[match_index[k]].UnitID]]
    /\ non_members_df' =
          [j \in 1..Len(non_members_df) |->
              LET ser == unitid_most_similar_members'
                  lab == non_members_df[j].index
              IN  With(non_members_df[j], "unitid_of_most_similar_member",
                       IF \E k \in 1..Len(ser) : ser[k].index = lab
                       THEN ser[CHOOSE k \in 1..Len(ser) : ser[k].index = lab].value
                       ELSE NaN)]
    /\ Goto("select_top_n")
    /\ UNCHANGED <<stdout, inputs, a1vars, idvars, a2vars, members_df, n, m,
                   members_norm, M, match_index, matched_euclidean,
                   potential_members>>

\* n = 100; sort_values('distance_with_closest_members').head(n)
SelectTopN ==
    /\ pc = "select_top_n"
    /\ \E top \in 1..MaxTopN :
          /\ n' = top
          /\ potential_members' =
                Head_n(sort_values(non_members_df, "distance_with_closest_members"),
                       top)
    /\ Goto("done")
    /\ UNCHANGED <<stdout, inputs, a1vars, idvars, a2vars, members_df, non_members_df,
                   m, members_norm, M, match_index, matched_euclidean,
                   unitid_most_similar_members>>

Next ==
    \/ GenIdsMembers
    \/ GenIdsAll
    \/ GenIdsNonmembers
    \/ NeedSubset
    \/ DiversityGender
    \/ DiversityRace
    \/ ComputeNeedScores
    \/ KeepVars
    \/ NeedSelectTopN
    \/ A2Subset
    \/ TagMembership
    \/ MergeRename
    \/ MarketPivot
    \/ MarketScore
    \/ MarketSort
    \/ A3Subset
    \/ PrintShapeBefore
    \/ DropNa
    \/ PrintShapeAfter
    \/ ResetIndex
    \/ Dimensions
    \/ ScaleFeatures
    \/ Distance
    \/ Matching
    \/ AttachDistance
    \/ AttachUnitid
    \/ SelectTopN

Spec == Init /\ [][Next]_vars

\* ======================================================== properties
\* the cells in notebook order
Order == <<"gen_ids_members", "gen_ids_all", "gen_ids_nonmembers",
           "a1_subset", "diversity_gender", "diversity_race",
           "compute_need_scores", "keep_vars", "a1_select_top_n",
           "a2_subset", "tag_membership", "merge", "market_pivot",
           "market_score", "market_sort",
           "a3_subset", "print_shape_before", "dropna", "print_shape_after",
           "reset_index", "dimensions", "scale", "distance", "matching",
           "attach_distance", "attach_unitid", "select_top_n", "done">>

Pos(l) == CHOOSE k \in 1..Len(Order) : Order[k] = l

\* the cell a failed run stopped in
FailedAt ==
    CASE error = "SchemaError" -> "gen_ids_nonmembers"
      [] error = "DegenerateInputError" -> "compute_need_scores"
      [] error = "KeyError" -> "market_score"
      [] OTHER -> "matching"

\* cell l has run to its end
Completed(l) ==
    IF pc = "failed" THEN Pos(FailedAt) > Pos(l) ELSE Pos(pc) > Pos(l)

\* cell l has been started
Started(l) ==
    IF pc = "failed" THEN Pos(FailedAt) >= Pos(l) ELSE Pos(pc) > Pos(l)

RECURSIVE SumOf(_, _)
SumOf(rows, c) ==
    IF rows = <<>> THEN 0
    ELSE SumOf(SubSeq(rows, 1, Len(rows) - 1), c) + rows[Len(rows)][c]

\* ---------------------------------------------------------------- C1
\* C1: once the non-customer ID set has been produced, it and the customer
\* IDs together make up exactly the eligible IDs, and they share no ID.
C1_PartitionOfAllIds ==
    Completed("gen_ids_nonmembers") =>
        /\ ids_non_members \cup ids_members = ids_all
        /\ ids_non_members \cap ids_members = {}

C1_Witness ==
    /\ Completed("gen_ids_nonmembers")
    /\ ids_members # {}
    /\ ids_non_members # {}

direct_distance(x, y) ==
    FSum([k \in 1..Len(x) |->
            LET d == FSub(x[k], y[k]) IN FMul(d, d)])

\* C3: every finite entry M[i][j] equals the directly computed sum of
\* squared differences of the two normalized rows, is non-negative, and is
\* 0 exactly when the two normalized rows are identical.
C3_DistanceIsSquaredDifference ==
    Completed("distance") =>
        \A i \in 1..Len(members_df) : \A j \in 1..Len(non_members_df) :
            ~IsNaN(M[i][j]) =>
                /\ M[i][j] = direct_distance(members_df[i].feat, non_members_df[j].feat)
                /\ M[i][j] >= 0
                /\ M[i][j] = 0 <=> members_df[i].feat = non_members_df[j].feat

\* ---------------------------------------------------------------- C4
VecA == <<Scale, 0>>
VecB == <<0, Scale>>
VecC == <<(9 * Scale) \div 10, Scale \div 10>>
VecD == <<Scale \div 10, (9 * Scale) \div 10>>

\* the rows of the input table that survive dropna, by membership
Surviving(member) ==
    Pick(ipeds, {r \in 1..Len(ipeds) :
                    /\ (ipeds[r].UnitID \in roster) = member
                    /\ \A k \in Features : ~IsNaN(ipeds[r].feat[k])})

\* customers are A and B, non-customers are C and D
ScenarioInput ==
    /\ Len(Surviving(TRUE)) = 2
    /\ Len(Surviving(FALSE)) = 2
    /\ {row.feat : row \in Range(Surviving(TRUE))} = {VecA, VecB}
    /\ {row.feat : row \in Range(Surviving(FALSE))} = {VecC, VecD}

IdOf(vec) ==
    (CHOOSE row \in Range(Surviving(TRUE)) \cup Range(Surviving(FALSE)) :
        row.feat = vec).UnitID

RowOf(df, id) == CHOOSE row \in Range(df) : row.UnitID = id

\* the end-to-end scenario, the distances being 0.02 to within tol units
Scenario(tol) ==
    ScenarioInput =>
        /\ Completed("scale") =>
              /\ members_norm = <<Scale, Scale>>
              /\ RowOf(members_df, IdOf(VecA)).feat = VecA
              /\ RowOf(members_df, IdOf(VecB)).feat = VecB
              /\ RowOf(non_members_df, IdOf(VecC)).feat = VecC
              /\ RowOf(non_members_df, IdOf(VecD)).feat = VecD
        /\ Completed("attach_unitid") =>
              LET c == RowOf(non_members_df, IdOf(VecC))
                  d == RowOf(non_members_df, IdOf(VecD))
                  want == (2 * Scale) \div 100
              IN  /\ c.unitid_of_most_similar_member = IdOf(VecA)
                  /\ d.unitid_of_most_similar_member = IdOf(VecB)
                  /\ c.distance_with_closest_members - want \in (0 - tol)..tol
                  /\ d.distance_with_closest_members - want \in (0 - tol)..tol
                  /\ c.distance_with_closest_members = d.distance_with_closest_members
        /\ (pc = "done" /\ n >= 2) =>
              /\ Len(potential_members) = 2
              /\ {row.UnitID : row \in Range(potential_members)}
                    = {IdOf(VecC), IdOf(VecD)}
              /\ potential_members[1].distance_with_closest_members
                    = potential_members[2].distance_with_closest_members

\* C4 as stated: in the end-to-end scenario the customer column norms are 1
\* and leave the columns unchanged, C is matched to A and D to B, each with
\* squared distance exactly 0.02, and the output lists C and D tied.
C4_EndToEndExact == Scenario(0)

\* C4 as amended: the same, each squared distance being 0.02 up to the
\* rounding of the arithmetic (one unit of its resolution), and the two
\* distances equal to each other.
C4_EndToEndRounded == Scenario(1)

C4_Witness == ScenarioInput /\ pc = "done" /\ n >= 2

\* ---------------------------------------------------------------- C5
\* C5: the market penetration computation never fails, and every region
\* row's score is defined and in [0,1], 1 for a region with customers only
\* and 0 for a region with non-customers only.
C5_PenetrationDefinedInUnitInterval ==
    /\ error # "KeyError"
    /\ Completed("market_score") =>
          \A k \in 1..Len(market_df.rows) :
              LET row == market_df.rows[k]
              IN  /\ ~IsNaN(row.market_penetration_score)
                  /\ row.market_penetration_score \in 0..ToFloat(1)
                  /\ row.non_member = 0 => row.market_penetration_score = ToFloat(1)
                  /\ row.member = 0 => row.market_penetration_score = 0

\* ---------------------------------------------------------------- C6
Statuses == {"member", "non_member"}

StatusOf(row) == IF row.UnitID \in roster THEN "member" ELSE "non_member"

\* institutions of the input table with status t (and in state s)
NumWithStatus(t) == Cardinality({r \in 1..Len(ipeds) : StatusOf(ipeds[r]) = t})

NumInCell(s, t) ==
    Cardinality({r \in 1..Len(ipeds) : ipeds[r].state = s /\ StatusOf(ipeds[r]) = t})

\* C6: every eligible institution has exactly one status and is counted in
\* exactly one (region, status) cell: every cell holds the number of its
\* institutions, the customer counts of the region rows sum to the number
\* of customers of the input table, and each region's total is its
\* customer count plus its non-customer count.
C6_CountsAddUp ==
    /\ Completed("tag_membership") =>
          \A id \in ids_all :
              /\ Cardinality({k \in 1..Len(ids_status) : ids_status[k].UnitID = id}) = 1
              /\ \A k \in 1..Len(ids_status) :
                    ids_status[k].membership_status \in Statuses
    /\ Completed("market_pivot") =>
          \A t \in Statuses :
              IF t \in market_df.columns
              THEN /\ SumOf(market_df.rows, t) = NumWithStatus(t)
                   /\ \A k \in 1..Len(market_df.rows) :
                         market_df.rows[k][t] = NumInCell(market_df.rows[k].state, t)
              ELSE NumWithStatus(t) = 0
    /\ Completed("market_score") =>
          /\ \A k \in 1..Len(market_df.rows) :
                market_df.rows[k].total
                    = NumInCell(market_df.rows[k].state, "member")
                        + NumInCell(market_df.rows[k].state, "non_member")
          /\ SumOf(market_df.rows, "total") = Cardinality(ids_all)

\* a region with customers and non-customers beside another region
C6_Witness ==
    /\ Completed("market_score")
    /\ Len(market_df.rows) >= 2
    /\ \E k \in 1..Len(market_df.rows) :
          market_df.rows[k].member > 0 /\ market_df.rows[k].non_member > 0

\* ---------------------------------------------------------------- C8
\* the institutions of the similarity tables with a missing feature
DroppedIds ==
    {ipeds[r].UnitID : r \in {q \in 1..Len(ipeds) :
                                \E k \in Features : IsNaN(ipeds[q].feat[k])}}

\* C8: once the rows with a missing feature have been dropped, none of them
\* is in either table, and the output reports the drop: how many rows and
\* which institutions.
C8_DropIsReported ==
    /\ Completed("dropna") =>
          \A row \in Range(members_df) \cup Range(non_members_df) :
              row.UnitID \notin DroppedIds
    /\ (Completed("print_shape_after") /\ DroppedIds # {}) =>
          \E k \in 1..Len(stdout) :
              /\ {"count", "dropped_ids"} \subseteq DOMAIN stdout[k]
              /\ stdout[k].count = Cardinality(DroppedIds)
              /\ stdout[k].dropped_ids = DroppedIds

\* ---------------------------------------------------------------- C9
\* C9: when a customer ID is absent from the eligible IDs, computing the
\* non-customer IDs fails, the run stops there, and no later stage (status
\* tagging, feature subsetting, matching) has run with that ID.
C9_AbsentCustomerIdIsFatal ==
    (Started("gen_ids_nonmembers") /\ ~(ids_members \subseteq ids_all)) =>
        /\ pc = "failed"
        /\ error = "SchemaError"
        /\ ids_non_members = {}
        /\ ids_status = <<>>
        /\ subset_df = <<>>
        /\ members_df = <<>>
        /\ M = <<>>
        /\ match_index = <<>>

C9_Witness ==
    /\ pc = "failed"
    /\ error = "SchemaError"
    /\ ForeignID \in ids_members
    /\ ids_all # {}

\* --------------------------------------------------------------- C10
\* C10: the output of approach 3 is the first min(n, m) rows of the
\* surviving non-customer rows in ascending order of distance: adjacent
\* rows do not decrease, and no row left out is closer than a row kept.
C10_TopNByDistance ==
    pc = "done" =>
        LET src == non_members_df
            out == potential_members
            d(row) == row.distance_with_closest_members
        IN  /\ {row.UnitID : row \in Range(src)}
                  = {row.UnitID : row \in Range(Surviving(FALSE))}
            /\ Len(src) = m
            /\ Len(out) = IF n < m THEN n ELSE m
            /\ Range(out) \subseteq Range(src)
            /\ Cardinality({row.UnitID : row \in Range(out)}) = Len(out)
            /\ \A k \in 1..(Len(out) - 1) : d(out[k]) <= d(out[k + 1])
            /\ \A left \in Range(src) \ Range(out) :
                  \A kept \in Range(out) : d(left) >= d(kept)

\* a truncation that leaves out a strictly farther row
C10_Witness ==
    /\ pc = "done"
    /\ n < m
    /\ \E left \in Range(non_members_df) \ Range(potential_members) :
          \E kept \in Range(potential_members) :
              left.distance_with_closest_members > kept.distance_with_closest_members
    /\ \E k \in 1..Len(non_members_df) :
          non_members_df[k].distance_with_closest_members
              > non_members_df[Len(non_members_df)].distance_with_closest_members

\* --------------------------------------------------------------- C11
\* the columns approach 1 works with: raw features, proportions, diversity
\* indices and standardized columns
WorkingColumns ==
    {"zip", "distance_educ", "financial_aid", "men", "women", "native_american",
     "asian", "black", "hispanic", "hawaiian_pacific", "white", "total_ug",
     "feat", "p_men", "p_women", "p_native_american", "p_asian", "p_black",
     "p_hispanic", "p_hawaiian_pacific", "p_white", "diversity_gender",
     "diversity_race", "scaled_diversity_gender", "scaled_diversity_race",
     "scaled_financial_aid", "scaled_distance_educ", "scaled_total_ug"}

\* the columns of a row (the index is not a column)
ColumnsOf(row) == DOMAIN row \ {"index"}

\* score x does not rank below score y in descending order, NaN last
NotBelow(x, y) == IsNaN(y) \/ (~IsNaN(x) /\ x >= y)

\* n and potential_members hold the result of approach 1
NeedResultHeld == Completed("a1_select_top_n") /\ ~Completed("dimensions")

SumSquares(df, k) == FSum([r \in 1..Len(df) |-> FMul(df[r].feat[k], df[r].feat[k])])

\* r is the square root of a, rounded to the nearest unit
IsRoundedSqrt(r, a) ==
    /\ r >= 0
    /\ a * Scale <= r * r + r
    /\ r = 0 \/ a * Scale > r * r - r

\* df is the table raw with every feature column divided by its factor and
\* the UnitID column as it was
ScaledBy(df, raw, factors) ==
    /\ Len(df) = Len(raw)
    /\ \A r \in 1..Len(raw) :
          /\ df[r].UnitID = raw[r].UnitID
          /\ \A k \in Features : df[r].feat[k] = FDiv(raw[r].feat[k], factors[k])

\* C12: once the features are scaled, the factor of each feature column is
\* the L2 norm of that column over the customer rows alone, so the factors
\* and the scaled customer table are determined by the customer rows
\* whatever the non-customer rows hold; each feature column of the customer
\* table and of the non-customer table is the raw column divided by that one
\* factor, and UnitID is left as it was in both tables.
C12_ScaledByCustomerNorms ==
    Completed("scale") =>
        /\ DOMAIN members_norm = Features
        /\ \A k \in Features :
              IsRoundedSqrt(members_norm[k], SumSquares(Surviving(TRUE), k))
        /\ ScaledBy(members_df, Surviving(TRUE), members_norm)
        /\ ScaledBy(non_members_df, Surviving(FALSE), members_norm)

\* two customers and two non-customers whose columns have other sums of
\* squares than the customers' columns, all divided by factors other than
\* 0 and 1
C12_Witness ==
    /\ pc = "distance"
    /\ Len(Surviving(TRUE)) = 2 /\ Len(Surviving(FALSE)) = 2
    /\ \A k \in Features :
          /\ members_norm[k] \notin {0, Scale}
          /\ SumSquares(Surviving(FALSE), k) # SumSquares(Surviving(TRUE), k)
    /\ \E r \in 1..2 : \E k \in Features :
          non_members_df[r].feat[k] # Surviving(FALSE)[r].feat[k]

\* --------------------------------------------------------------- C13
\* the regions with at least one eligible institution
Regions == {ipeds[r].state : r \in 1..Len(ipeds)}

\* the rows of the merged table of region s and status t
NumTagged(s, t) ==
    Cardinality({k \in 1..Len(subset_df) :
                    subset_df[k].state = s /\ subset_df[k].membership_status = t})

\* market_df has exactly one row for each region with an eligible
\* institution
OneRowPerRegion ==
    /\ {market_df.rows[k].state : k \in 1..Len(market_df.rows)} = Regions
    /\ Len(market_df.rows) = Cardinality(Regions)

\* C13: the pivot of approach 2 has exactly one row for each region with an
\* eligible institution and the count 0 where a region has no institution
\* of a status; the result of approach 2 keeps these rows and has them in
\* ascending order of market_penetration_score: no row's score is greater
\* than the score of the row after it.
C13_OneRowPerRegionAscending ==
    /\ Completed("market_pivot") =>
          /\ OneRowPerRegion
          /\ \A k \in 1..Len(market_df.rows) :
                \A t \in Statuses \cap market_df.columns :
                    NumTagged(market_df.rows[k].state, t) = 0
                        => market_df.rows[k][t] = 0
    /\ Completed("market_sort") =>
          /\ Statuses \subseteq market_df.columns
          /\ \A k \in 1..(Len(market_df.rows) - 1) :
                /\ ~IsNaN(market_df.rows[k].market_penetration_score)
                /\ ~IsNaN(market_df.rows[k + 1].market_penetration_score)
                /\ market_df.rows[k].market_penetration_score
                      <= market_df.rows[k + 1].market_penetration_score

\* three regions, the last in pivot order without a customer and first in
\* the result, the scores of the three all different
C13_Witness ==
    /\ Completed("market_sort")
    /\ Len(market_df.rows) = 3
    /\ market_df.rows[1].state = StateOrder[3]
    /\ market_df.rows[1].member = 0
    /\ market_df.rows[1].market_penetration_score
          < market_df.rows[2].market_penetration_score
    /\ market_df.rows[2].market_penetration_score
          < market_df.rows[3].market_penetration_score

====
